---- MODULE Spec2Model ----
(***************************************************************************)
(* LiveSessionService (src/services/liveSessionService.ts): the duplex     *)
(* audio session manager.  One service instance, its fields, the platform  *)
(* resources it acquires (audio contexts, microphone streams, capture      *)
(* graphs, connections), the startSession calls in flight, the transport   *)
(* callbacks, the playback cursor and the activity timers.                 *)
(*                                                                         *)
(* JavaScript runs one task at a time: every action below is one task (a   *)
(* call from the page, a promise settling, a callback, a timer), run up to *)
(* its next await.  Continuations of promises that settle together are     *)
(* queued in microtasks and run before any other task.                     *)
(* Times are in milliseconds.                                              *)
(***************************************************************************)
EXTENDS Integers, Sequences, FiniteSets, TLC

\* ---- bounds of the model ----
MaxCalls == 2          \* startSession calls made on the instance
MaxFrames == 2         \* captured frames whose sending order is observed
MaxMsgs == 2           \* inbound messages delivered in total
MaxTicks == 3          \* clock ticks
MaxChunkTicks == 2     \* longest chunk, in ticks
MaxSuspends == 1       \* times the platform suspends a running output context
MaxErrors == 1         \* socket errors reported in total
GridSteps == 50        \* samples are the multiples of 1/GridSteps in [-1, 1]

\* ---- program constants ----
OUTPUT_SAMPLE_RATE == 24000
DefaultRetries == 3
DefaultDelay == 1000
ActivityTimeout == 500
NegativeScale == 32768     \* 0x8000
PositiveScale == 32767     \* 0x7FFF
DecodeScale == 32768

\* granularity of the clock: half the activity timeout
TickMs == ActivityTimeout \div 2
SamplesPerTick == (OUTPUT_SAMPLE_RATE * TickMs) \div 1000

Null == 0
Calls == 1..MaxCalls
\* the calls of a run in which one more start overlaps
Starts == 1..(MaxCalls + 1)

VARIABLES
  \* fields of LiveSessionService
  inputContext, outputContext, inputSource, processor, currentStream,
  nextStartTime, isConnected, sessionPromise,
  \* platform resources, named by the startSession call that created them;
  \* graphs[g] is the input context a connected capture graph g is built on
  inCtxState, outCtxState, outTime, streamState, graphs, connState,
  \* startSession / connectWithRetry calls
  pc, retries, delay,
  \* event loop
  resumeWaiters, microtasks, timers, now,
  \* observations; activity[c] is the last onAudioActivity call made for c:
  \* "on" for true, "off" for false
  attempts, waits, result, sockErrors, catchSaw, activity, scheduled, lastChunkAt,
  stopLog, msgCount, suspends,
  \* the lesson player (VisualPlayer.tsx)
  isLiveSession,
  \* capture: the sessions frames were sent on, calls with a send pending,
  \* the send failures caught at line 149
  sends, pendingSends, sendFailures,
  \* the frames numbered so far, those waiting for each call's session, and
  \* the numbers in the order they were passed to sendRealtimeInput
  captured, queued, sent,
  \* the codec: a sample, its encoded frame, the decoded sample
  sample, frame, decoded

fields == <<inputContext, outputContext, inputSource, processor, currentStream,
            nextStartTime, isConnected, sessionPromise>>
platform == <<inCtxState, outCtxState, outTime, streamState, graphs, connState>>
callVars == <<pc, retries, delay>>
loopVars == <<resumeWaiters, microtasks, timers, now>>
connObs == <<attempts, waits>>
errObs == <<sockErrors, catchSaw, isLiveSession>>
capObs == <<sends, pendingSends, sendFailures, captured, queued, sent>>
codecVars == <<sample, frame, decoded>>
playObs == <<activity, scheduled, lastChunkAt>>
envObs == <<msgCount, suspends>>
vars == <<fields, platform, callVars, loopVars, connObs, errObs, capObs, codecVars, playObs, envObs,
          result, stopLog>>

\* the service's fields as one value
Fields == [inputContext |-> inputContext, outputContext |-> outputContext,
           inputSource |-> inputSource, processor |-> processor,
           currentStream |-> currentStream, nextStartTime |-> nextStartTime,
           isConnected |-> isConnected, sessionPromise |-> sessionPromise]

RECURSIVE SumTo(_, _)
SumTo(f, n) == IF n = 0 THEN 0 ELSE f[n] + SumTo(f, n - 1)

InitService ==
  /\ inputContext = Null /\ outputContext = Null
  /\ inputSource = Null /\ processor = Null /\ currentStream = Null
  /\ nextStartTime = 0 /\ isConnected = FALSE /\ sessionPromise = Null
  /\ inCtxState = [c \in Starts |-> "none"]
  /\ outCtxState = [c \in Starts |-> "none"]
  /\ outTime = [c \in Starts |-> 0]
  /\ streamState = [c \in Starts |-> "none"]
  /\ graphs = [g \in Starts |-> Null]
  /\ connState = [c \in Starts |-> "none"]
  /\ pc = [c \in Starts |-> "idle"]
  /\ retries = [c \in Starts |-> DefaultRetries]
  /\ delay = [c \in Starts |-> DefaultDelay]
  /\ resumeWaiters = <<>> /\ microtasks = <<>> /\ timers = <<>> /\ now = 0
  /\ attempts = [c \in Starts |-> 0]
  /\ waits = [c \in Starts |-> <<>>]
  /\ result = [c \in Starts |-> "none"]
  /\ sockErrors = [c \in Starts |-> 0]
  /\ catchSaw = [c \in Starts |-> "none"]
  /\ activity = [c \in Starts |-> "none"]
  /\ scheduled = <<>>
  /\ lastChunkAt = -1
  /\ stopLog = {}
  /\ msgCount = 0 /\ suspends = 0
  /\ isLiveSession = FALSE
  /\ sends = {} /\ pendingSends = {} /\ sendFailures = {}
  /\ captured = 0 /\ queued = [c \in Starts |-> <<>>] /\ sent = <<>>

\* The service after construction; the codec has been given nothing.
Init == InitService /\ sample = <<>> /\ frame = <<>> /\ decoded = <<>>

\* ---- stopSession (lines 184-214) ----
\* No session: the service is not connected and holds no resource.
NoSessionActive ==
  /\ ~isConnected
  /\ inputContext = Null /\ outputContext = Null /\ currentStream = Null
  /\ inputSource = Null /\ processor = Null

\* The service is idle: no session and no startSession call in flight.
Idle == NoSessionActive /\ \A c \in Starts : pc[c] \in {"idle", "done"}

\* stopSession does not touch the connection: the session object the connect
\* resolved to is never closed.
\* stopSession without its null tests: every handle is dereferenced.
StopDerefsUnguarded ==
  {inputSource, processor, currentStream, inputContext, outputContext}

\* The handles stopSession dereferences: each behind a null test in the code.
StopDerefs ==
  {h \in {inputSource, processor, currentStream, inputContext, outputContext} : h # Null}

\* A stopSession that leaves the cursor where it is.
CursorKept == nextStartTime

\* Line 213: the cursor after stopSession.
CursorAfterStop == 0

stopSession ==
  /\ isConnected' = FALSE
  /\ graphs' = [g \in Starts |-> IF g \in {inputSource, processor} THEN Null ELSE graphs[g]]
  /\ inputSource' = Null
  /\ processor' = Null
  /\ streamState' = IF currentStream # Null
                    THEN [streamState EXCEPT ![currentStream] = "stopped"]
                    ELSE streamState
  /\ currentStream' = Null
  /\ inCtxState' = IF inputContext # Null
                   THEN [inCtxState EXCEPT ![inputContext] = "closed"]
                   ELSE inCtxState
  /\ inputContext' = Null
  /\ outCtxState' = IF outputContext # Null
                    THEN [outCtxState EXCEPT ![outputContext] = "closed"]
                    ELSE outCtxState
  /\ outputContext' = Null
  /\ nextStartTime' = CursorAfterStop
  /\ stopLog' = stopLog \cup (IF Null \in StopDerefs THEN {"threw"} ELSE {})
                        \cup (IF Idle THEN {"idle"} ELSE {})
  /\ UNCHANGED <<sessionPromise, outTime>>

\* stopSession called by the page.
StopSession ==
  /\ microtasks = <<>>
  /\ stopSession
  /\ UNCHANGED <<connState, callVars, loopVars, connObs, errObs, capObs, codecVars, playObs,
                 envObs, result>>

\* ---- startSession (lines 23-65) ----
\* The state startSession is to leave behind when it fails.
Clean(f) ==
  /\ ~f.isConnected /\ f.nextStartTime = 0
  /\ f.inputContext = Null /\ f.outputContext = Null /\ f.currentStream = Null
  /\ f.inputSource = Null /\ f.processor = Null

\* The onError callback the lesson player passes to startSession
\* (VisualPlayer.tsx lines 267-271): the player leaves the live state.
PlayerOnError == isLiveSession' = FALSE

\* The catch block of startSession: onError(error), then stopSession().
StartCatch(c) ==
  /\ pc' = [pc EXCEPT ![c] = "done"]
  /\ result' = [result EXCEPT ![c] = "failed"]
  /\ catchSaw' = [catchSaw EXCEPT ![c] = IF Clean(Fields) THEN "clean" ELSE "held"]
  /\ PlayerOnError
  /\ stopSession
  /\ UNCHANGED <<sockErrors, capObs, codecVars>>

\* resume() called on a suspended context x.  When the platform allows the
\* context to start, its state reads "running" from the call on, while the
\* promise settles in a later task (state "resuming": rendering has not
\* started yet); when it does not, the state stays "suspended" and the
\* promise stays pending.
ResumeCalled(x) ==
  \E allowed \in BOOLEAN :
    outCtxState' = IF allowed THEN [outCtxState EXCEPT ![x] = "resuming"] ELSE outCtxState

\* What the code reads in context.state.
ReadsSuspended(x) == outCtxState[x] = "suspended"

\* Lines 41-45, after the input context is running: the output context is
\* resumed if it is suspended, then the microphone is requested.
AfterInputResume(c, out) ==
  IF ReadsSuspended(out)
  THEN /\ pc' = [pc EXCEPT ![c] = "resumeOut"]
       /\ resumeWaiters' = Append(resumeWaiters, [kind |-> "start", call |-> c, ctx |-> out,
                                                  bytes |-> 0, seq |-> 0])
       /\ ResumeCalled(out)
  ELSE /\ pc' = [pc EXCEPT ![c] = "getUserMedia"]
       /\ UNCHANGED <<resumeWaiters, outCtxState>>

\* startSession without the guard of line 28.
NeverActive == FALSE

\* Line 28: a session is already active.
AlreadyActive == isConnected

\* The call's first task: the guard of line 28, the two contexts of lines 34-35.
\* Both contexts are made in one task, under one autoplay policy: both start
\* running or both start suspended.
startSession(c, st) ==
  /\ microtasks = <<>>
  /\ pc[c] = "idle"
  /\ \A d \in Calls : d < c => pc[d] # "idle"
  /\ stopLog' = {}
  /\ IF AlreadyActive
     THEN /\ pc' = [pc EXCEPT ![c] = "done"]
          /\ result' = [result EXCEPT ![c] = "noop"]
          /\ UNCHANGED <<fields, platform, retries, delay, loopVars, connObs, sockErrors,
                         catchSaw, capObs, codecVars,
                         playObs, envObs>>
     ELSE /\ inputContext' = c
          /\ outputContext' = c
          /\ inCtxState' = [inCtxState EXCEPT ![c] = st]
          /\ outCtxState' = [outCtxState EXCEPT ![c] = st]
          /\ IF st = "suspended"
             THEN /\ pc' = [pc EXCEPT ![c] = "resumeIn"]
                  /\ UNCHANGED resumeWaiters
             ELSE /\ pc' = [pc EXCEPT ![c] = "getUserMedia"]
                  /\ UNCHANGED resumeWaiters
          /\ UNCHANGED <<inputSource, processor, currentStream, nextStartTime, isConnected,
                         sessionPromise, outTime, streamState, graphs, connState,
                         retries, delay, microtasks, timers, now, connObs, sockErrors,
                         catchSaw, capObs, codecVars, playObs, envObs, result>>

\* startSession called directly, the player's state left alone.
StartSession(c, st) == startSession(c, st) /\ UNCHANGED isLiveSession

\* inputContext.resume() of line 39 settles.  A context that stopSession closed
\* in the meantime rejects or resolves; line 41 then reads this.outputContext.
InputResumed(c) ==
  /\ microtasks = <<>>
  /\ pc[c] = "resumeIn"
  /\ inCtxState[c] \in {"suspended", "closed"}
  /\ \E ok \in BOOLEAN :
     /\ inCtxState[c] = "suspended" => ok
     /\ IF ~ok \/ outputContext = Null
        THEN /\ StartCatch(c)
             /\ UNCHANGED <<connState, retries, delay, loopVars, connObs, playObs, envObs>>
        ELSE /\ inCtxState' = IF inCtxState[c] = "suspended"
                              THEN [inCtxState EXCEPT ![c] = "running"]
                              ELSE inCtxState
             /\ AfterInputResume(c, outputContext)
             /\ UNCHANGED <<fields, outTime, streamState, graphs, connState,
                            retries, delay, microtasks, timers, now, connObs, errObs, capObs, codecVars,
                            playObs, envObs, result, stopLog>>

\* getUserMedia of line 45 resolves: the stream is stored, and line 56 calls
\* connectWithRetry, which runs up to its await of the first connect.
GetUserMediaResolved(c) ==
  /\ microtasks = <<>>
  /\ pc[c] = "getUserMedia"
  /\ currentStream' = c
  /\ streamState' = [streamState EXCEPT ![c] = "live"]
  /\ sessionPromise' = c
  /\ connState' = [connState EXCEPT ![c] = "connecting"]
  /\ attempts' = [attempts EXCEPT ![c] = 1]
  /\ pc' = [pc EXCEPT ![c] = "connecting"]
  /\ UNCHANGED <<inputContext, outputContext, inputSource, processor, nextStartTime,
                 isConnected, inCtxState, outCtxState, outTime, graphs, retries, delay,
                 loopVars, waits, errObs, capObs, codecVars, playObs, envObs, result, stopLog>>

\* getUserMedia rejects (permission denied, no device).
GetUserMediaRejected(c) ==
  /\ microtasks = <<>>
  /\ pc[c] = "getUserMedia"
  /\ StartCatch(c)
  /\ UNCHANGED <<connState, retries, delay, loopVars, connObs, playObs, envObs>>

\* ---- connectWithRetry (lines 67-123) and the transport callbacks ----
\* startAudioInput (lines 125-157): builds the capture graph on this.inputContext.
startAudioInput(c) ==
  IF inputContext = Null \/ currentStream = Null \/ sessionPromise = Null
  THEN UNCHANGED <<inputSource, processor, graphs>>
  ELSE /\ inputSource' = c
       /\ processor' = c
       /\ graphs' = [graphs EXCEPT ![c] = inputContext]

\* The connect of line 75 succeeds: the transport calls onopen (lines 78-82),
\* then the promise resolves and startSession's await of line 58 returns.
OnOpen(c) ==
  /\ microtasks = <<>>
  /\ pc[c] = "connecting"
  /\ connState[c] = "connecting"
  /\ connState' = [connState EXCEPT ![c] = "open"]
  /\ isConnected' = TRUE
  /\ startAudioInput(c)
  /\ pc' = [pc EXCEPT ![c] = "done"]
  /\ result' = [result EXCEPT ![c] = "opened"]
  /\ UNCHANGED <<inputContext, outputContext, currentStream, nextStartTime, sessionPromise,
                 inCtxState, outCtxState, outTime, streamState, retries, delay, loopVars,
                 connObs, errObs, codecVars, playObs, envObs, stopLog>>
  /\ sends' = sends \cup (IF c \in pendingSends THEN {"open"} ELSE {})
  /\ pendingSends' = pendingSends \ {c}
  /\ sent' = sent \o queued[c]
  /\ queued' = [queued EXCEPT ![c] = <<>>]
  /\ UNCHANGED <<sendFailures, captured>>

\* The retry test off by one.
MayRetryOnceMore(r) == r >= 0

\* Line 115: a retry is left.
MayRetry(r) == r > 0

\* A backoff that grows by the first delay instead of doubling.
NextDelayLinear(d) == d + DefaultDelay

\* Line 118: the delay of the next retry.
NextDelay(d) == d * 2

\* The connect of line 75 rejects: lines 114-121 wait and retry, or rethrow
\* into the catch block of startSession.
ConnectFailed(c) ==
  /\ microtasks = <<>>
  /\ pc[c] = "connecting"
  /\ connState[c] = "connecting"
  /\ IF MayRetry(retries[c])
     THEN /\ connState' = [connState EXCEPT ![c] = "failed"]
          /\ pc' = [pc EXCEPT ![c] = "backoff"]
          /\ waits' = [waits EXCEPT ![c] = Append(@, delay[c])]
          /\ UNCHANGED <<fields, inCtxState, outCtxState, outTime, streamState, graphs,
                         retries, delay, loopVars, attempts, errObs, capObs, codecVars, playObs, envObs,
                         result, stopLog>>
     ELSE /\ StartCatch(c)
          /\ connState' = [connState EXCEPT ![c] = "failed"]
          /\ UNCHANGED <<retries, delay, loopVars, connObs, playObs, envObs>>

\* The backoff timer of line 117 fires: line 118 connects again.
BackoffElapsed(c) ==
  /\ microtasks = <<>>
  /\ pc[c] = "backoff"
  /\ retries' = [retries EXCEPT ![c] = @ - 1]
  /\ delay' = [delay EXCEPT ![c] = NextDelay(@)]
  /\ attempts' = [attempts EXCEPT ![c] = @ + 1]
  /\ connState' = [connState EXCEPT ![c] = "connecting"]
  /\ pc' = [pc EXCEPT ![c] = "connecting"]
  /\ UNCHANGED <<fields, inCtxState, outCtxState, outTime, streamState, graphs, loopVars,
                 waits, errObs, capObs, codecVars, playObs, envObs, result, stopLog>>

\* onclose (lines 93-96): the remote end or the network closed the connection.
OnClose(c) ==
  /\ microtasks = <<>>
  /\ connState[c] = "open"
  /\ connState' = [connState EXCEPT ![c] = "closed"]
  /\ isConnected' = FALSE
  /\ UNCHANGED <<inputContext, outputContext, inputSource, processor, currentStream,
                 nextStartTime, sessionPromise, inCtxState, outCtxState, outTime,
                 streamState, graphs, callVars, loopVars, connObs, errObs, capObs, codecVars, playObs,
                 envObs, result, stopLog>>

\* An onerror that ends the session.
SocketErrorTearsDown == stopSession

\* What onerror does to the service besides calling onError: nothing.
SocketErrorEffect ==
  UNCHANGED <<fields, inCtxState, outCtxState, outTime, streamState, graphs, stopLog>>

\* onerror (lines 97-100): a socket error is passed to onError.
OnError(c) ==
  /\ microtasks = <<>>
  /\ connState[c] \in {"connecting", "open"}
  /\ SumTo(sockErrors, MaxCalls) < MaxErrors
  /\ sockErrors' = [sockErrors EXCEPT ![c] = @ + 1]
  /\ PlayerOnError
  /\ SocketErrorEffect
  /\ UNCHANGED <<connState, callVars, loopVars, connObs, catchSaw, capObs, codecVars,
                 playObs, envObs, result>>

\* ---- resuming a suspended output context ----
\* outputContext.resume() settles for context x: every caller awaiting it
\* (line 42, line 164) continues, in the order of the calls.  A context that
\* stopSession closed in the meantime rejects or resolves.
OutputResumed(x) ==
  /\ microtasks = <<>>
  /\ outCtxState[x] \in {"suspended", "resuming", "closed"}
  /\ \E i \in 1..Len(resumeWaiters) : resumeWaiters[i].ctx = x
  /\ \E ok \in BOOLEAN :
     /\ outCtxState[x] # "closed" => ok
     /\ microtasks' = [i \in 1..Len(SelectSeq(resumeWaiters, LAMBDA w : w.ctx = x)) |->
                         [kind |-> SelectSeq(resumeWaiters, LAMBDA w : w.ctx = x)[i].kind,
                          call |-> SelectSeq(resumeWaiters, LAMBDA w : w.ctx = x)[i].call,
                          bytes |-> SelectSeq(resumeWaiters, LAMBDA w : w.ctx = x)[i].bytes,
                          seq |-> SelectSeq(resumeWaiters, LAMBDA w : w.ctx = x)[i].seq,
                          ok |-> ok]]
  /\ resumeWaiters' = SelectSeq(resumeWaiters, LAMBDA w : w.ctx # x)
  /\ outCtxState' = IF outCtxState[x] # "closed"
                    THEN [outCtxState EXCEPT ![x] = "running"]
                    ELSE outCtxState
  /\ UNCHANGED <<fields, inCtxState, outTime, streamState, graphs, connState, callVars,
                 timers, now, connObs, errObs, capObs, codecVars, playObs, envObs, result, stopLog>>

\* ---- playAudioChunk (lines 159-182) ----
\* b64ToPcm (lines 233-246) views the bytes as 16-bit samples: an odd number
\* of bytes makes the Int16Array constructor throw.
Decodable(bytes) == bytes % 2 = 0

\* A duration computed at the capture rate (16 kHz) instead of the output rate.
DurationAtInputRate(bytes) == ((bytes \div 2) * 1000) \div 16000

\* audioBuffer.duration: sample count over the output rate, in milliseconds.
Duration(bytes) == ((bytes \div 2) * 1000) \div OUTPUT_SAMPLE_RATE

\* A scheduler that ignores the cursor and starts every chunk at once.
ScheduledStartNow(cursor, currentTime) == currentTime

\* Lines 176-180: the start of the chunk, given the cursor and the device time.
ScheduledStart(cursor, currentTime) == IF cursor < currentTime THEN currentTime ELSE cursor

\* The log of scheduled chunks keeps the two most recent ones; an entry tells
\* whether it was the first chunk on its output context.
LastTwo(q) == IF Len(q) <= 2 THEN q ELSE SubSeq(q, Len(q) - 1, Len(q))

\* Lines 167-181, then line 90 of onmessage.  A throw (undecodable payload,
\* this.outputContext null) leaves the handler before anything is scheduled.
PlayRest(c, bytes, seq) ==
  IF ~Decodable(bytes) \/ outputContext = Null
  THEN UNCHANGED <<nextStartTime, scheduled, timers>>
  ELSE LET currentTime == outTime[outputContext]
           start == ScheduledStart(nextStartTime, currentTime)
       IN /\ scheduled' = LastTwo(Append(scheduled, [ctx |-> outputContext,
                                seq |-> seq, samples |-> bytes \div 2,
                                first |-> (scheduled = <<>> \/
                                           scheduled[Len(scheduled)].ctx # outputContext),
                                at |-> currentTime, start |-> start, dur |-> Duration(bytes)]))
          /\ nextStartTime' = start + Duration(bytes)
          /\ timers' = Append(timers, [call |-> c, due |-> now + ActivityTimeout])

\* An onmessage that takes every message for audio.
AnyMessageCarriesAudio(bytes) == TRUE

\* Line 86: the message carries an audio payload.
CarriesAudio(bytes) == bytes # 0

\* Lines 167-168 of a play continuation m: the payload decodes and
\* this.outputContext is dereferenced, with no test after the await, while it
\* is null.
DerefsNullContext(m) ==
  m.kind = "play" /\ m.ok /\ Decodable(m.bytes) /\ outputContext = Null

\* onmessage (lines 83-92) up to its first suspension.
OnMessage(c, bytes) ==
  /\ microtasks = <<>>
  /\ connState[c] = "open"
  /\ msgCount < MaxMsgs
  /\ msgCount' = msgCount + 1
  /\ IF ~CarriesAudio(bytes)
     THEN UNCHANGED <<nextStartTime, scheduled, timers, resumeWaiters, activity, lastChunkAt,
                      outCtxState>>
     ELSE /\ activity' = [activity EXCEPT ![c] = "on"]
          /\ lastChunkAt' = now
          /\ IF outputContext = Null
             THEN /\ timers' = Append(timers, [call |-> c, due |-> now + ActivityTimeout])
                  /\ UNCHANGED <<nextStartTime, scheduled, resumeWaiters, outCtxState>>
             ELSE IF ReadsSuspended(outputContext)
             THEN /\ resumeWaiters' = Append(resumeWaiters,
                        [kind |-> "play", call |-> c, ctx |-> outputContext, bytes |-> bytes,
                         seq |-> msgCount + 1])
                  /\ ResumeCalled(outputContext)
                  /\ UNCHANGED <<nextStartTime, scheduled, timers>>
             ELSE /\ PlayRest(c, bytes, msgCount + 1)
                  /\ UNCHANGED <<resumeWaiters, outCtxState>>
  /\ UNCHANGED <<inputContext, outputContext, inputSource, processor, currentStream,
                 isConnected, sessionPromise, inCtxState, outTime, streamState, graphs,
                 connState, callVars, microtasks, now,
                 connObs, errObs, capObs, codecVars, suspends, result, stopLog>>

\* The continuation of an await of outputContext.resume().
RunMicrotask ==
  /\ microtasks # <<>>
  /\ microtasks' = Tail(microtasks)
  /\ LET m == Head(microtasks) IN
     IF m.kind = "start"
     THEN IF m.ok
          THEN /\ pc' = [pc EXCEPT ![m.call] = "getUserMedia"]
               /\ UNCHANGED <<fields, platform, retries, delay, resumeWaiters, timers, now,
                              connObs, errObs, capObs, codecVars, playObs, envObs, result, stopLog>>
          ELSE /\ StartCatch(m.call)
               /\ UNCHANGED <<connState, retries, delay, resumeWaiters, timers, now, connObs,
                              playObs, envObs>>
     ELSE /\ IF m.ok
             THEN PlayRest(m.call, m.bytes, m.seq)
             ELSE UNCHANGED <<nextStartTime, scheduled, timers>>
          /\ UNCHANGED <<inputContext, outputContext, inputSource, processor, currentStream,
                         isConnected, sessionPromise, platform, callVars, resumeWaiters, now,
                         connObs, errObs, capObs, codecVars, activity, lastChunkAt, envObs, result, stopLog>>

\* The timer of line 90 fires.
ActivityTimerFired ==
  /\ microtasks = <<>>
  /\ timers # <<>>
  /\ Head(timers).due <= now
  /\ activity' = [activity EXCEPT ![Head(timers).call] = "off"]
  /\ timers' = Tail(timers)
  /\ UNCHANGED <<fields, platform, callVars, resumeWaiters, microtasks, now, connObs,
                 errObs, capObs, codecVars, scheduled, lastChunkAt, envObs, result, stopLog>>

\* ---- the platform ----
\* Time passes: the clock of every running output context advances.
Tick ==
  /\ microtasks = <<>>
  /\ now < MaxTicks * TickMs
  /\ timers # <<>> \/ \E c \in Starts : connState[c] = "open"
  /\ \A i \in 1..Len(timers) : timers[i].due > now
  /\ now' = now + TickMs
  /\ outTime' = [x \in Starts |-> IF outCtxState[x] = "running"
                                 THEN outTime[x] + TickMs ELSE outTime[x]]
  /\ UNCHANGED <<fields, inCtxState, outCtxState, streamState, graphs, connState, callVars,
                 resumeWaiters, microtasks, timers, connObs, errObs, capObs, codecVars, playObs, envObs,
                 result, stopLog>>

\* The platform suspends the running output context of the service (power or
\* autoplay policy).
SuspendOutput(x) ==
  /\ microtasks = <<>>
  /\ x = outputContext
  /\ outCtxState[x] = "running"
  /\ suspends < MaxSuspends
  /\ suspends' = suspends + 1
  /\ outCtxState' = [outCtxState EXCEPT ![x] = "suspended"]
  /\ UNCHANGED <<fields, inCtxState, outTime, streamState, graphs, connState, callVars,
                 loopVars, connObs, errObs, capObs, codecVars, playObs, msgCount, result, stopLog>>

\* ---- the capture callback (lines 134-152) ----
\* A capture callback whose catch ends the session.
SendFailureStops == stopSession

\* What the capture callback and its catch (lines 149-151) do to the service:
\* nothing.
CaptureEffect ==
  UNCHANGED <<fields, inCtxState, outCtxState, outTime, streamState, graphs, stopLog>>

\* The then-callback of line 142 on a pending promise: the frame, numbered
\* while the observation has room, waits for the session of call c.
ThenQueued(c) ==
  IF captured < MaxFrames
  THEN /\ captured' = captured + 1
       /\ queued' = [queued EXCEPT ![c] = Append(@, captured + 1)]
       /\ UNCHANGED sent
  ELSE UNCHANGED <<captured, queued, sent>>

\* The then-callback on a resolved promise runs before any other task.
ThenRuns ==
  IF captured < MaxFrames
  THEN /\ captured' = captured + 1
       /\ sent' = Append(sent, captured + 1)
       /\ UNCHANGED queued
  ELSE UNCHANGED <<captured, queued, sent>>

\* onaudioprocess of capture graph g fires: the graph is connected and its
\* input context is rendering.  The frame goes to the session that
\* this.sessionPromise resolves to: at once when the promise is resolved,
\* when the connection opens when it is pending; a rejected promise goes to
\* the catch of line 149, and so does a send that throws, which a send on an
\* open session does not.
Capture(g) ==
  /\ microtasks = <<>>
  /\ graphs[g] # Null
  /\ inCtxState[graphs[g]] = "running"
  /\ IF ~isConnected \/ sessionPromise = Null
     THEN UNCHANGED capObs
     ELSE IF pc[sessionPromise] \in {"connecting", "backoff"}
     THEN /\ pendingSends' = pendingSends \cup {sessionPromise}
          /\ ThenQueued(sessionPromise)
          /\ UNCHANGED <<sends, sendFailures>>
     ELSE IF result[sessionPromise] = "opened"
     THEN /\ sends' = sends \cup {connState[sessionPromise]}
          /\ \E threw \in BOOLEAN :
               /\ connState[sessionPromise] = "open" => ~threw
               /\ sendFailures' = sendFailures \cup (IF threw THEN {"threw"} ELSE {})
          /\ ThenRuns
          /\ UNCHANGED pendingSends
     ELSE /\ sendFailures' = sendFailures \cup {"rejected"}
          /\ UNCHANGED <<sends, pendingSends, captured, queued, sent>>
  /\ CaptureEffect
  /\ UNCHANGED <<connState, callVars, loopVars, connObs, errObs, codecVars, playObs,
                 envObs, result>>

\* The connect of call c was given up: the sends that waited for its session
\* are rejected and caught at line 149.
SendRejected(c) ==
  /\ microtasks = <<>>
  /\ c \in pendingSends
  /\ result[c] = "failed"
  /\ pendingSends' = pendingSends \ {c}
  /\ sendFailures' = sendFailures \cup {"rejected"}
  /\ queued' = [queued EXCEPT ![c] = <<>>]
  /\ CaptureEffect
  /\ UNCHANGED <<sends, captured, sent, connState, callVars, loopVars, connObs, errObs, codecVars, playObs,
                 envObs, result>>

\* ---- the lesson player (VisualPlayer.tsx lines 240-274) ----
\* toggleLiveSession: stops the session when the player is live, else enters
\* the live state (line 253) and calls startSession.
ToggleLiveSession ==
  IF isLiveSession
  THEN /\ microtasks = <<>>
       /\ stopSession
       /\ isLiveSession' = FALSE
       /\ UNCHANGED <<connState, callVars, loopVars, connObs, sockErrors, catchSaw, capObs,
                      codecVars, playObs, envObs, result>>
  ELSE /\ isLiveSession' = TRUE
       /\ \E c \in Calls, st \in {"running", "suspended"} : startSession(c, st)

\* ---- the codec (lines 218-246) ----
\* A sample k stands for the float k / GridSteps; a decoded value q stands
\* for the float q / DecodeScale.
\* Line 221: the sample clamped to [-1, 1].
Clamp(k) == IF k < -GridSteps THEN -GridSteps ELSE IF k > GridSteps THEN GridSteps ELSE k

\* Line 222: the sample scaled, and truncated toward zero by the store into
\* the Int16Array.
ToInt16(k) ==
  IF k < 0 THEN -(((-k) * NegativeScale) \div GridSteps)
           ELSE (k * PositiveScale) \div GridSteps

\* Line 225: the two bytes of a 16-bit integer, low byte first.
BytesOf(q) == <<(q % 65536) % 256, (q % 65536) \div 256>>

\* padding character of base64
Pad == 64

\* btoa (line 230): three bytes to four characters, each a 6-bit value.
RECURSIVE Btoa(_)
Btoa(b) ==
  IF Len(b) = 0 THEN <<>>
  ELSE IF Len(b) = 1 THEN <<b[1] \div 4, (b[1] % 4) * 16, Pad, Pad>>
  ELSE IF Len(b) = 2
       THEN <<b[1] \div 4, (b[1] % 4) * 16 + b[2] \div 16, (b[2] % 16) * 4, Pad>>
  ELSE <<b[1] \div 4, (b[1] % 4) * 16 + b[2] \div 16, (b[2] % 16) * 4 + b[3] \div 64,
         b[3] % 64>> \o Btoa(SubSeq(b, 4, Len(b)))

\* atob (line 234).
RECURSIVE Atob(_)
Atob(t) ==
  IF Len(t) = 0 THEN <<>>
  ELSE LET b1 == t[1] * 4 + t[2] \div 16
           b2 == (t[2] % 16) * 16 + t[3] \div 4
           b3 == (t[3] % 4) * 64 + t[4]
       IN (IF t[3] = Pad THEN <<b1>> ELSE IF t[4] = Pad THEN <<b1, b2>> ELSE <<b1, b2, b3>>)
          \o Atob(SubSeq(t, 5, Len(t)))

RECURSIVE Flatten(_)
Flatten(ss) == IF Len(ss) = 0 THEN <<>> ELSE Head(ss) \o Flatten(Tail(ss))

\* pcmToB64 (lines 218-231).
pcmToB64(float32Array) ==
  Btoa(Flatten([i \in 1..Len(float32Array) |-> BytesOf(ToInt16(Clamp(float32Array[i])))]))

\* Line 240: the 16-bit integer made of two bytes, low byte first.
Int16Of(lo, hi) == IF lo + 256 * hi >= 32768 THEN lo + 256 * hi - 65536 ELSE lo + 256 * hi

\* b64ToPcm (lines 233-246): each 16-bit integer q is the float q / 32768.
b64ToPcm(base64) ==
  LET bytes == Atob(base64)
  IN [i \in 1..(Len(bytes) \div 2) |-> Int16Of(bytes[2 * i - 1], bytes[2 * i])]

\* The samples given to the codec: one sample of the grid.
Samples == {<<k>> : k \in (-GridSteps)..GridSteps}

InitCodec == InitService /\ sample \in Samples /\ frame = <<>> /\ decoded = <<>>

Encode ==
  /\ sample # <<>> /\ frame = <<>>
  /\ frame' = pcmToB64(sample)
  /\ UNCHANGED <<fields, platform, callVars, loopVars, connObs, errObs, capObs, playObs, envObs,
                 result, stopLog, sample, decoded>>

Decode ==
  /\ frame # <<>> /\ decoded = <<>>
  /\ decoded' = b64ToPcm(frame)
  /\ UNCHANGED <<fields, platform, callVars, loopVars, connObs, errObs, capObs, playObs, envObs,
                 result, stopLog, sample, frame>>

\* Audio payloads of whole chunks, in bytes.
Chunks == {2 * SamplesPerTick * k : k \in 1..MaxChunkTicks}

\* Payloads of inbound messages: none (0), whole chunks, and one of odd length.
Payloads == {0} \cup Chunks \cup {2 * SamplesPerTick + 1}

NextSession ==
  \/ StopSession
  \/ \E c \in Calls, st \in {"running", "suspended"} : StartSession(c, st)
  \/ \E c \in Calls : InputResumed(c)
  \/ \E c \in Calls : GetUserMediaResolved(c)
  \/ \E c \in Calls : GetUserMediaRejected(c)
  \/ \E c \in Calls : OnOpen(c)
  \/ \E c \in Calls : ConnectFailed(c)
  \/ \E c \in Calls : BackoffElapsed(c)
  \/ \E c \in Calls : OnClose(c)
  \/ \E x \in Calls : OutputResumed(x)
  \/ RunMicrotask

\* The whole system.
Next ==
  \/ NextSession
  \/ \E c \in Calls : OnError(c)
  \/ \E c \in Calls, bytes \in Payloads : OnMessage(c, bytes)
  \/ ActivityTimerFired
  \/ Tick
  \/ \E x \in Calls : SuspendOutput(x)
  \/ \E g \in Calls : Capture(g)
  \/ \E c \in Calls : SendRejected(c)
  \/ ToggleLiveSession
  \/ Encode
  \/ Decode

\* One startSession call whose connect succeeds at the first attempt, with
\* playback and time.
NextPlayback ==
  \/ StopSession
  \/ \E st \in {"running", "suspended"} : StartSession(1, st)
  \/ InputResumed(1)
  \/ GetUserMediaResolved(1)
  \/ OnOpen(1)
  \/ OnClose(1)
  \/ OutputResumed(1)
  \/ RunMicrotask
  \/ \E bytes \in Payloads : OnMessage(1, bytes)
  \/ ActivityTimerFired
  \/ Tick
  \/ SuspendOutput(1)

\* The session lifecycle with the capture callback.
NextCapture ==
  \/ StopSession
  \/ \E c \in Calls, st \in {"running", "suspended"} : StartSession(c, st)
  \/ \E c \in Calls : InputResumed(c)
  \/ \E c \in Calls : GetUserMediaResolved(c)
  \/ \E c \in Calls : GetUserMediaRejected(c)
  \/ \E c \in Calls : OnOpen(c)
  \/ \E c \in Calls : ConnectFailed(c)
  \/ \E c \in Calls : BackoffElapsed(c)
  \/ \E c \in Calls : OnClose(c)
  \/ \E x \in Calls : OutputResumed(x)
  \/ RunMicrotask
  \/ \E g \in Calls : Capture(g)
  \/ \E c \in Calls : SendRejected(c)

\* The lesson player driving the service, with socket errors; every connect
\* succeeds at its first attempt, a start fails by the microphone being denied.
NextPlayer ==
  \/ ToggleLiveSession
  \/ \E c \in Calls : InputResumed(c)
  \/ \E c \in Calls : GetUserMediaResolved(c)
  \/ \E c \in Calls : GetUserMediaRejected(c)
  \/ \E c \in Calls : OnOpen(c)
  \/ \E c \in Calls : OnClose(c)
  \/ \E c \in Calls : OnError(c)
  \/ \E x \in Calls : OutputResumed(x)
  \/ RunMicrotask

NextCodec == Encode \/ Decode

\* Starting a session, with connects that fail and socket errors.
NextStartErrors ==
  \/ \E c \in Calls : StartSession(c, "running")
  \/ \E c \in Calls : GetUserMediaResolved(c)
  \/ \E c \in Calls : GetUserMediaRejected(c)
  \/ \E c \in Calls : OnOpen(c)
  \/ \E c \in Calls : ConnectFailed(c)
  \/ \E c \in Calls : BackoffElapsed(c)
  \/ \E c \in Calls : OnError(c)

\* Sessions that open at the first attempt and end by stopSession only, one
\* after the other, with whole chunks played at one instant.
NextRestart ==
  \/ StopSession
  \/ \E c \in Calls : StartSession(c, "running")
  \/ \E c \in Calls : GetUserMediaResolved(c)
  \/ \E c \in Calls : OnOpen(c)
  \/ \E c \in Calls, bytes \in Chunks : OnMessage(c, bytes)

Spec == Init /\ [][Next]_vars
SpecCapture == Init /\ [][NextCapture]_vars
SpecPlayer == Init /\ [][NextPlayer]_vars
SpecCodec == InitCodec /\ [][NextCodec]_vars
SpecStartErrors == Init /\ [][NextStartErrors]_vars
SpecRestart == Init /\ [][NextRestart]_vars
SpecSession == Init /\ [][NextSession]_vars
SpecPlayback == Init /\ [][NextPlayback]_vars

\* ======================= the claims =======================

\* connections open or being opened
LiveConnections == {c \in Calls : connState[c] \in {"connecting", "open"}}

\* C1: in every reachable state at most one connection to the remote endpoint
\* is open or being opened.
C1_AtMostOneConnection == Cardinality(LiveConnections) <= 1

\* C2: a startSession call made while the service is connected returns at
\* once: no field of the service and no platform resource changes, and no
\* connect attempt is made for it.
C2_StartWhileActiveIsNoOp ==
  [][\A c \in Calls :
       (pc[c] = "idle" /\ pc'[c] # "idle" /\ isConnected)
         => /\ UNCHANGED <<fields, platform>>
            /\ pc'[c] = "done" /\ result'[c] = "noop" /\ attempts'[c] = 0]_vars

C2_Witness == \E c \in Calls : result[c] = "noop" /\ pc[c] = "done"

\* C3: when the catch block of startSession invokes onError, every resource
\* has been released already and the service is in its clean idle state.
C3_RolledBackBeforeOnError == \A c \in Calls : catchSaw[c] # "held"

\* stopSession would change no field
StopChangesNothing == NoSessionActive /\ nextStartTime = 0

\* C4: stopSession with no session active does not throw and changes nothing,
\* and right after any stopSession a second one would change nothing.
C4_StopIdleIsNoOp ==
  [][StopSession =>
       /\ "threw" \notin stopLog'
       /\ NoSessionActive => UNCHANGED <<fields, platform>>
       /\ StopChangesNothing']_vars

C4_Witness == "idle" \in stopLog /\ \E c \in Calls : streamState[c] = "stopped"

\* stopSession ran after call c took its microphone stream, and c is still
\* connecting or waiting to retry
StoppedWhileConnecting(c) ==
  pc[c] \in {"connecting", "backoff"} /\ streamState[c] = "stopped"

\* C5: once stopSession has run while a call is connecting, that call makes no
\* further connect attempt and its connection never opens.
C5_StopCancelsConnect ==
  [][\A c \in Calls :
       StoppedWhileConnecting(c) => attempts'[c] = attempts[c] /\ connState'[c] # "open"]_vars

\* C6: stopSession closes the connection that was open.
C6_StopClosesTransport ==
  [][StopSession => \A c \in Calls : connState[c] = "open" => connState'[c] = "closed"]_vars

\* the waits the retry policy prescribes: 1000, 2000, 4000
Backoff == [i \in 1..DefaultRetries |-> DefaultDelay * 2 ^ (i - 1)]

\* C7: a call makes at most 4 connect attempts, the waits between them are
\* 1000, 2000, 4000 ms in that order, one wait per failed attempt that is
\* retried; a call that opens after exactly two failures made 3 attempts and
\* waited 1000 then 2000 ms.
C7_RetryBackoff ==
  \A c \in Calls :
    /\ attempts[c] <= DefaultRetries + 1
    /\ Len(waits[c]) <= DefaultRetries
    /\ waits[c] = SubSeq(Backoff, 1, Len(waits[c]))
    /\ attempts[c] = IF pc[c] = "backoff" \/ attempts[c] = 0
                     THEN Len(waits[c]) ELSE Len(waits[c]) + 1
    /\ (result[c] = "opened" /\ Len(waits[c]) = 2)
         => attempts[c] = 3 /\ waits[c] = <<1000, 2000>>

C7_Witness == \E c \in Calls : result[c] = "opened" /\ Len(waits[c]) = 2

\* the fourth connect of call c has been made and has failed
Exhausted(c) == attempts[c] = DefaultRetries + 1 /\ connState[c] = "failed"

\* C8: no call makes a fifth connect attempt, and in every state after the
\* fourth consecutive connect failure of a call, the call has ended in
\* failure and the catch block has invoked onError for it.
C8_ExhaustionIsTerminal ==
  \A c \in Calls :
    /\ attempts[c] <= DefaultRetries + 1
    /\ Exhausted(c) => /\ pc[c] = "done" /\ result[c] = "failed"
                       /\ catchSaw[c] # "none"
                       /\ waits[c] = Backoff

C8_Witness == \E c \in Calls : Exhausted(c) /\ pc[c] = "done"

\* C9: onActivity(false) is invoked only when 500 ms have passed since the
\* last audio chunk arrived.
C9_ActivityDecaysAfterQuiet ==
  [][ActivityTimerFired => now - lastChunkAt >= ActivityTimeout]_vars

\* C10: of two chunks scheduled one after the other on the same output
\* context, the later starts no earlier than the end of the earlier, exactly
\* at that end when it arrived before the end, and at its own arrival time
\* only when it arrived at or after that end.
C10_NoOverlapNoGap ==
  \A i \in 1..(Len(scheduled) - 1) :
    LET a == scheduled[i]
        b == scheduled[i + 1]
    IN a.ctx = b.ctx =>
         /\ b.start >= a.start + a.dur
         /\ b.at <= a.start + a.dur => b.start = a.start + a.dur
         /\ b.start = b.at => b.at >= a.start + a.dur

C10_Witness ==
  /\ Len(scheduled) = 2
  /\ scheduled[2].at > scheduled[1].at
  /\ scheduled[2].at < scheduled[1].start + scheduled[1].dur
  /\ scheduled[2].start = scheduled[1].start + scheduled[1].dur

\* C11: audio chunks are scheduled in the order their messages arrived: of
\* two chunks scheduled one after the other, the later one arrived later.
C11_ScheduledInArrivalOrder ==
  \A i \in 1..(Len(scheduled) - 1) : scheduled[i].seq < scheduled[i + 1].seq

\* the audio of a scheduled chunk that the device has not played yet
Unplayed(e) == e.start + e.dur > outTime[e.ctx]

\* C17: stopSession never cuts a chunk that was already scheduled: no chunk
\* with audio still to play sits on an output context that has been closed.
C17_ScheduledNeverPreempted ==
  \A i \in 1..Len(scheduled) :
    Unplayed(scheduled[i]) => outCtxState[scheduled[i].ctx] # "closed"

\* the chunk a step has just scheduled
Newest == scheduled'[Len(scheduled')]

\* C20: every step that schedules a chunk starts it at the later of the
\* device time and the cursor, and moves the cursor to that start plus the
\* chunk's duration, its sample count over 24000 per second; the cursor only
\* ever goes down when stopSession resets it.
C20_CursorAdvance ==
  [][/\ scheduled' # scheduled =>
          /\ Newest.at = outTime[outputContext]
          /\ Newest.start = IF nextStartTime > Newest.at THEN nextStartTime ELSE Newest.at
          /\ Newest.dur * OUTPUT_SAMPLE_RATE = Newest.samples * 1000
          /\ nextStartTime' = Newest.start + Newest.dur
     /\ nextStartTime' < nextStartTime => nextStartTime' = 0 /\ outputContext' = Null]_vars

\* two chunks scheduled back to back, the second one queued behind the first
C20_Witness ==
  /\ Len(scheduled) = 2
  /\ scheduled[2].start > scheduled[2].at
  /\ nextStartTime = scheduled[2].start + scheduled[2].dur

\* C12: the capture callback sends frames on open sessions only: no frame is
\* ever handed to a session that is not open.
C12_CaptureSendsOnlyWhenOpen == sends \subseteq {"open"}

LiveStreams == {c \in Calls : streamState[c] = "live"}
LiveInputContexts == {c \in Calls : inCtxState[c] \in {"running", "suspended"}}
LiveOutputContexts == {c \in Calls : outCtxState[c] \in {"running", "suspended", "resuming"}}
LiveGraphs == {g \in Calls : graphs[g] # Null /\ inCtxState[graphs[g]] # "closed"}

\* C13: at most one microphone stream, one capture graph, one input context
\* and one output context made by the service are live at any time.
C13_OneOfEachResource ==
  /\ Cardinality(LiveStreams) <= 1
  /\ Cardinality(LiveGraphs) <= 1
  /\ Cardinality(LiveInputContexts) <= 1
  /\ Cardinality(LiveOutputContexts) <= 1

\* onError is invoked for a socket error on the open connection of call c
SocketErrorWhileOpen(c) == sockErrors'[c] = sockErrors[c] + 1 /\ connState[c] = "open"

\* C14: a socket error on an established session changes no field of the
\* service and no platform resource: the session is not torn down.
C14_SocketErrorKeepsSession ==
  [][\A c \in Calls : SocketErrorWhileOpen(c) => UNCHANGED <<fields, platform>>]_vars

C14_Witness ==
  \E c \in Calls : /\ sockErrors[c] > 0 /\ connState[c] = "open"
                    /\ isConnected /\ graphs[c] # Null /\ currentStream # Null

\* C15: a socket error on an established session leaves the lesson player in
\* the live state.
C15_PlayerStaysLiveOnSocketError ==
  [][\A c \in Calls : (SocketErrorWhileOpen(c) /\ isLiveSession) => isLiveSession']_vars

\* C16: when a startSession call ends in failure, the lesson player is not in
\* the live state: it was not live while the call was in flight.
C16_NeverLiveBeforeFailure ==
  [][\A c \in Calls : (result[c] # "failed" /\ result'[c] = "failed") => ~isLiveSession]_vars

\* the absolute value of an integer
Abs(n) == IF n < 0 THEN -n ELSE n

\* C18: a sample decoded from its own encoding differs from the sample by at
\* most 1/32768: with s = sample/GridSteps and d = decoded/32768,
\* |s - d| <= 1/32768.
C18_RoundTripWithinOneStep ==
  \A i \in 1..Len(decoded) :
    Abs(sample[i] * DecodeScale - decoded[i] * GridSteps) <= GridSteps

\* C19: after every stopSession the service is disconnected, its handles are
\* null, the resources they named are released and the cursor is 0; and the
\* cursor leaves 0 only by a chunk being scheduled at the device's current
\* time, so that the first chunk after a stopSession starts at that time.
C19_StopReleasesAndResets ==
  /\ [][StopSession =>
          /\ ~isConnected' /\ nextStartTime' = 0
          /\ inputSource' = Null /\ processor' = Null /\ currentStream' = Null
          /\ inputContext' = Null /\ outputContext' = Null
          /\ processor # Null => graphs'[processor] = Null
          /\ currentStream # Null => streamState'[currentStream] = "stopped"
          /\ inputContext # Null => inCtxState'[inputContext] = "closed"
          /\ outputContext # Null => outCtxState'[outputContext] = "closed"]_vars
  /\ [][(nextStartTime = 0 /\ nextStartTime' # 0) =>
          /\ scheduled' # scheduled
          /\ Newest.start = Newest.at /\ Newest.at = outTime[outputContext]]_vars

\* a second session, begun after stopSession cut the audio of the first, has
\* its first chunk scheduled at the device's current time
C19_Witness ==
  /\ Len(scheduled) = 2
  /\ scheduled[1].ctx # scheduled[2].ctx
  /\ outCtxState[scheduled[1].ctx] = "closed"
  /\ scheduled[1].start + scheduled[1].dur > scheduled[2].at
  /\ scheduled[2].first /\ scheduled[2].start = scheduled[2].at

\* C21: a message without audio payload invokes no callback, schedules no
\* chunk and no timer, and leaves every field of the service unchanged.
C21_NoAudioMessageIgnored ==
  [][\A c \in Calls :
       OnMessage(c, 0) => UNCHANGED <<fields, platform, loopVars, playObs, errObs>>]_vars

\* messages have been delivered on the open session and none carried audio
C21_Witness ==
  /\ msgCount > 0 /\ connState[1] = "open" /\ isConnected
  /\ activity[1] = "none" /\ scheduled = <<>> /\ timers = <<>>

\* the odd-length payload
Malformed == 2 * SamplesPerTick + 1

\* C23: a message with an odd-length audio payload is dropped and nothing
\* else happens: no chunk and no timer is scheduled, no field changes, and
\* the activity indicator is as it was.
C23_MalformedFrameDropped ==
  [][\A c \in Calls :
       OnMessage(c, Malformed) =>
         UNCHANGED <<fields, platform, scheduled, timers, resumeWaiters, activity>>]_vars

\* C25: whenever the service is marked connected it holds the resources of a
\* session: both audio contexts and the microphone stream.
C25_ConnectedHoldsResources ==
  isConnected => inputContext # Null /\ outputContext # Null /\ currentStream # Null

\* something is pending that will invoke onActivity(false) for call c: a
\* timer of line 90, or a playAudioChunk of c whose await has not returned
PendingDecay(c) ==
  \/ \E i \in 1..Len(timers) : timers[i].call = c
  \/ \E i \in 1..Len(resumeWaiters) : resumeWaiters[i].kind = "play" /\ resumeWaiters[i].call = c
  \/ \E i \in 1..Len(microtasks) : microtasks[i].kind = "play" /\ microtasks[i].call = c

\* C26: the speaking indicator is never left on with nothing pending that
\* will turn it off.
C26_ActivityAlwaysDecays ==
  \A c \in Calls : activity[c] = "on" => PendingDecay(c)

\* C27: no continuation of playAudioChunk dereferences a null outputContext.
C27_NoUseOfReleasedContext ==
  microtasks # <<>> => ~DerefsNullContext(Head(microtasks))

\* C28: whenever the lesson player shows the live session as off, the
\* service holds no microphone stream and is not connected.
C28_PlayerOffMeansServiceOff ==
  ~isLiveSession => currentStream = Null /\ ~isConnected

\* C29: once stopSession has closed the output context of a session, the
\* onAudioActivity callback of that session is not invoked any more.
C29_NoActivityAfterStop ==
  [][\A c \in Calls : outCtxState[c] = "closed" => activity'[c] = activity[c]]_vars

\* C30: a startSession call that has failed was reported through onError
\* exactly once, by the catch block and not also by the socket's onerror; a
\* call that has opened its session was not reported by the catch block.
C30_OneReportPerFailedStart ==
  \A c \in Calls :
    /\ result[c] = "failed" => catchSaw[c] # "none" /\ sockErrors[c] = 0
    /\ result[c] = "opened" => catchSaw[c] = "none"

\* Capture while connections open, close and fail: no stop, no clock.
NextSend ==
  \/ \E c \in Calls : StartSession(c, "running")
  \/ \E c \in Calls : GetUserMediaResolved(c)
  \/ \E c \in Calls : OnOpen(c)
  \/ \E c \in Calls : OnClose(c)
  \/ \E c \in Calls : ConnectFailed(c)
  \/ \E c \in Calls : BackoffElapsed(c)
  \/ \E g \in Calls : Capture(g)
  \/ \E c \in Calls : SendRejected(c)

SpecSend == Init /\ [][NextSend]_vars

\* a frame is handed to an open session by this step of graph g
SendsOnOpen(g) ==
  /\ Capture(g) /\ isConnected /\ sessionPromise # Null
  /\ result[sessionPromise] = "opened" /\ connState[sessionPromise] = "open"

\* C22: a step in which the sending of a frame fails invokes onError in no
\* way and changes no field of the service and no platform resource; and
\* whatever failed before, a frame captured while the session is open is sent.
C22_SendFailureAbsorbed ==
  [][/\ sendFailures' # sendFailures => UNCHANGED <<fields, platform, errObs>>
     /\ \A g \in Calls : SendsOnOpen(g) => "open" \in sends']_vars

\* a send failure has been absorbed, and frames have been sent
C22_Witness == sendFailures # {} /\ "open" \in sends

\* Starts that overlap: each call is made before an earlier one has connected.
NextOverlap ==
  \/ \E c \in Starts : StartSession(c, "running")
  \/ \E c \in Starts : GetUserMediaResolved(c)
  \/ \E c \in Starts : OnOpen(c)
  \/ \E g \in Starts : Capture(g)

SpecOverlap == Init /\ [][NextOverlap]_vars

\* C24: the frames are passed to sendRealtimeInput in the order their
\* capture callbacks ran: a frame sent earlier was captured earlier.
C24_SentInCaptureOrder ==
  \A i, j \in DOMAIN sent : i < j => sent[i] < sent[j]
====
